---- MODULE Spec2Model ----
(***************************************************************************)
(* Model of the outbound message-publishing layer of the auth service:     *)
(* MessageProducer (src/messaging/producers/producer.ts), the facades      *)
(* AuditLogService.sendAuditLog and MessageService.sendUserData, and the   *)
(* controller updateWhitelistedUser that awaits the audit facade.          *)
(*                                                                         *)
(* Every async function activation is a frame on the stack of the task     *)
(* (promise chain) that awaits it.  A step of the model is one turn of the *)
(* event loop: the settlement of the operation a task awaits together with *)
(* the synchronous code that runs up to the task's next await.             *)
(***************************************************************************)
EXTENDS Integers, Sequences, FiniteSets, TLC

\* ---- bounds of the model ----
MaxCalls == 2               \* host calls made in one behaviour (they may overlap)
MaxBackground == 1          \* un-awaited attemptReconnect promises alive at once
MaxConns == 2               \* connections the broker accepts in one behaviour
MaxFaults == 1              \* connections and channels the broker drops in one behaviour
maxReconnectAttempts == 2   \* ProducerConfig.maxReconnectAttempts
MaxShutdowns == 1           \* close() calls of the shutdown path, beyond MaxCalls
MaxClock == 2               \* milliseconds the clock advances in one behaviour
MaxDigit == 1               \* largest base-36 digit Math.random() yields in the model
MaxRandomDigits == 2        \* fraction digits of Math.random().toString(36)

Callers == 1..MaxCalls
Background == (MaxCalls + 1)..(MaxCalls + MaxBackground)
Closers ==
  (MaxCalls + MaxBackground + 1)..(MaxCalls + MaxBackground + MaxShutdowns)
TaskIds == Callers \cup Background \cup Closers
ConnIds == 1..MaxConns

\* operations the host invokes on the producer itself
ProducerOps == {"initialize", "sendMessage", "close"}
\* operations the business logic invokes (updateWhitelistedUser goes through
\* sendAuditLog), and the shutdown hook
FacadeOps == {"updateWhitelistedUser", "sendUserData", "close"}

\* The whole state is one record, so that the synchronous code of a handler
\* is a function from the state before it to the state after it.
VARIABLE st

vars == <<st>>

connection == st.connection                \* this.connection: 0 is null, else a connection id
channel == st.channel                      \* this.channel: 0 is null, else the id of the channel's connection
isInitialized == st.isInitialized          \* this.isInitialized
reconnectAttempts == st.reconnectAttempts  \* this.reconnectAttempts
isShuttingDown == st.isShuttingDown        \* this.isShuttingDown
conns == st.conns     \* broker side: state of every connection and of its channel
tasks == st.tasks     \* the promise chains: operation, stack of frames, result
h == st.h             \* history of what has happened (observation only)

State == st

Becomes(s) == st' = s

IdleTask ==
  [op |-> "none", stack |-> <<>>, result |-> "none",
   afterClose |-> FALSE, inner |-> "none", facade |-> "none",
   whenExhausted |-> FALSE, settledBefore |-> {}]

Frame(fn, pc, c) == [fn |-> fn, pc |-> pc, c |-> c]

\* ---- stack helpers ----
Stack(s, t) == s.tasks[t].stack
Top(s, t) == Stack(s, t)[Len(Stack(s, t))]
Push(s, t, f) == [s EXCEPT !.tasks[t].stack = Append(@, f)]
Pop(s, t) == [s EXCEPT !.tasks[t].stack = SubSeq(@, 1, Len(@) - 1)]
SetTop(s, t, f) == [s EXCEPT !.tasks[t].stack[Len(Stack(s, t))] = f]

Busy(t) == tasks[t].stack # <<>>
TopPc(t) == IF Busy(t) THEN tasks[t].stack[Len(tasks[t].stack)].pc ELSE "idle"
TopC(t) == IF Busy(t) THEN tasks[t].stack[Len(tasks[t].stack)].c ELSE 0


\* ---- broker side helpers ----
\* a connection the broker has blocked is still open
ConnOpen(s, c) == c # 0 /\ s.conns[c].state \in {"open", "blocked"}
ChanOpen(s, c) == c # 0 /\ s.conns[c].ch = "open"
Unborn(s) == {c \in ConnIds : s.conns[c].state = "none"}
FreshConn(s) == CHOOSE c \in Unborn(s) : \A d \in Unborn(s) : c <= d
FreeBackground(s) == {t \in Background : s.tasks[t].stack = <<>>}
FreshBackground(s) ==
  CHOOSE t \in FreeBackground(s) : \A u \in FreeBackground(s) : t <= u

\* ---- settlement of a task's outermost promise ----
\* A host call keeps its result; an un-awaited attemptReconnect promise
\* (started by handleConnectionClose) is dropped once it has settled.
Settle(s, t, out) ==
  IF t \in Background
    THEN [s EXCEPT !.tasks[t] = IdleTask,
                   !.h.unhandled = @ \/ out = "err"]
    ELSE [s EXCEPT !.tasks[t].result = out,
                   !.h.closeDone = @ \/ (s.tasks[t].op = "close" /\ out = "ok")]

\* an attemptReconnect whose catch block rethrows
ReconnectCatchRethrows(out) == out

\* attemptReconnect, lines 189-194: initialize() is awaited in a try whose
\* catch only logs, so the function returns normally either way
ReconnectCatch(out) == "ok"

\* a facade whose catch block rethrows
SendAuditLogRethrows(out) == out

\* sendAuditLog: `return success` in the try block, `return false` in the catch
SendAuditLogResult(out) == IF out = "err" THEN "false" ELSE out

\* sendUserData / sendAuthLogsMessage: `return true` after the await,
\* `return false` in the catch
SendUserDataResult(out) == IF out = "err" THEN "false" ELSE "true"

\* a controller that fails the request when the audit send returned false
ControllerResponseChecksAudit(out) ==
  IF out \in {"err", "false"} THEN "500" ELSE "200"

\* updateWhitelistedUser: the value of the audit send is discarded and the
\* success response is sent; an exception would reach catchAsync instead
ControllerResponse(out) == IF out = "err" THEN "500" ELSE "200"

\* a sendMessage without the test of line 86
ChannelMissingUnchecked(s) == FALSE

\* sendMessage, line 86: `!this.channel`
ChannelMissing(s) == s.channel = 0

\* sendMessage, line 87: `throw new Error('Channel not available')`
ChannelNotAvailable(s, t) == [s EXCEPT !.h.noChannel = @ \cup {t}]

\* ---- return of control to the awaiting frame ----
\* `out` is what the awaited promise settled with: "ok" (void), "true",
\* "false", or "err" (rejected).  The frame on top of the stack is the one
\* that awaited it; its synchronous continuation runs up to its next await.
RECURSIVE Resume(_, _, _)
Resume(s, t, out) ==
  IF Stack(s, t) = <<>> THEN Settle(s, t, out)
  ELSE LET f == Top(s, t) IN
    CASE f.pc = "i_catch" ->
           \* initialize, line 78: `throw error` after awaiting attemptReconnect
           Resume(Pop(s, t), t, "err")
      [] f.pc = "r_init" ->
           \* attemptReconnect, lines 189-194: the catch swallows the error
           Resume(Pop(s, t), t, ReconnectCatch(out))
      [] f.pc = "s_ensure" ->
           \* sendMessage, lines 84-96
           IF out = "err" THEN Resume(Pop(s, t), t, "err")
           ELSE IF ChannelMissing(s)
                  THEN Resume(Pop(ChannelNotAvailable(s, t), t), t, "err")
           ELSE SetTop(s, t, Frame("sendMessage", "s_assert", s.channel))
      [] f.pc = "f_audit" ->
           Resume([Pop(s, t) EXCEPT !.tasks[t].inner = out,
                     !.tasks[t].facade = SendAuditLogResult(out)], t,
                  SendAuditLogResult(out))
      [] f.pc = "f_user" ->
           Resume([Pop(s, t) EXCEPT !.tasks[t].inner = out,
                     !.tasks[t].facade = SendUserDataResult(out)], t,
                  SendUserDataResult(out))
      [] f.pc = "u_audit" ->
           Resume(Pop(s, t), t, ControllerResponse(out))
      [] OTHER -> s

\* ---- attemptReconnect, lines 174-187: the code before the delay ----
ShutdownGuard(s) == s.isShuttingDown
\* the comparison off by one
AttemptsExhaustedOffByOne(s) == s.reconnectAttempts > maxReconnectAttempts

\* line 179
AttemptsExhausted(s) == s.reconnectAttempts >= maxReconnectAttempts
\* an attemptReconnect that always gives up
ReconnectNeverAllowed(s) == FALSE

ReconnectAllowed(s) == ~ShutdownGuard(s) /\ ~AttemptsExhausted(s)
StartDelay(s) ==
  [s EXCEPT !.reconnectAttempts = @ + 1, !.h.timers = @ + 1]

\* attemptReconnect awaited by task t (from the catch of initialize)
attemptReconnect(s, t) ==
  IF ReconnectAllowed(s)
    THEN Push(StartDelay(s), t, Frame("attemptReconnect", "r_delay", 0))
    ELSE Resume(s, t, "ok")

\* attemptReconnect() called without await by handleConnectionClose
SpawnReconnect(s) ==
  IF ReconnectAllowed(s)
    THEN LET b == FreshBackground(s) IN
         [StartDelay(s) EXCEPT !.tasks[b] =
            [IdleTask EXCEPT !.op = "attemptReconnect",
               !.stack = <<Frame("attemptReconnect", "r_delay", 0)>>]]
    ELSE s

\* ---- initialize, lines 37-48: the check and the call of amqp.connect ----
initialize(s, t) ==
  IF s.isInitialized THEN Resume(s, t, "ok")
  ELSE Push(s, t,
            Frame("initialize", "i_connect", 0))

\* a catch block that rethrows without attempting a reconnect
InitializeCatchOnlyRethrows(s, t) == Resume(Pop(s, t), t, "err")

\* initialize, lines 71-79: the catch block; the top frame is initialize
InitializeCatch(s, t) ==
  IF ~s.isShuttingDown
    THEN attemptReconnect(SetTop(s, t, Frame("initialize", "i_catch", 0)), t)
    ELSE Resume(Pop(s, t), t, "err")

\* ensureConnection, lines 126-130
ensureConnection(s, t) ==
  IF ~s.isInitialized \/ s.connection = 0
    THEN initialize(s, t)
    ELSE Resume(s, t, "ok")

\* sendMessage, line 84
sendMessage(s, t) ==
  ensureConnection(Push(s, t, Frame("sendMessage", "s_ensure", 0)), t)

\* ---- connection event handlers, lines 137-151 ----
\* an 'error' handler that also drops the references
handleConnectionErrorClears(s) ==
  [s EXCEPT !.isInitialized = FALSE, !.connection = 0, !.channel = 0]

handleConnectionError(s) == [s EXCEPT !.isInitialized = FALSE]

handleConnectionClose(s) ==
  LET s1 == [s EXCEPT !.isInitialized = FALSE] IN
  IF ~s1.isShuttingDown THEN SpawnReconnect(s1) ELSE s1

RECURSIVE EmitClose(_, _)
EmitClose(s, n) ==
  IF n = 0 THEN s ELSE EmitClose(handleConnectionClose(s), n - 1)

RECURSIVE EmitError(_, _)
EmitError(s, n) ==
  IF n = 0 THEN s ELSE EmitError(handleConnectionError(s), n - 1)

\* a 'blocked' handler that marks the producer not connected
handleConnectionBlockedMarks(s) == [s EXCEPT !.isInitialized = FALSE]

\* lines 154-161: the 'blocked' and 'unblocked' handlers only log
handleConnectionBlocked(s) == s
handleConnectionUnblocked(s) == s

\* the connection goes away: its channel goes with it
Dropped(s, c) ==
  [s EXCEPT !.conns[c].state = "closed",
            !.conns[c].ch = IF @ = "open" THEN "closed" ELSE @]


\* ---- sendMessage, lines 107-117: publish and the confirm callback ----
\* a publish that does not wait for the broker's confirmation
PublishUnconfirmed(s, t) == Resume(Pop(s, t), t, "true")

\* `this.channel!.sendToQueue(...)` runs inside the promise executor: a null
\* or closed channel makes it throw, which rejects the promise
Publish(s, t) ==
  IF ChanOpen(s, s.channel)
    THEN SetTop(s, t,
                Frame("sendMessage", "s_confirm", s.channel))
    ELSE Resume(Pop(s, t), t, "err")

\* the broker answers a publish only once it has received it: the order of
\* its answers is kept as the order in which it is known to hold the messages
Received(s, t) == [s EXCEPT !.h.received = Append(@, t)]

\* a callback that resolves whatever the broker said
ConfirmCallbackIgnoresErr(s, t, err) == Resume(Pop(s, t), t, "true")

\* a callback that logs the error and forgets to reject
ConfirmCallbackDropsErr(s, t, err) ==
  IF err THEN SetTop(s, t, Frame("sendMessage", "s_forgotten", 0))
         ELSE Resume(Pop(s, t), t, "true")

\* the callback given to sendToQueue: reject(err) or resolve(true)
ConfirmCallback(s, t, err) ==
  IF err THEN Resume(Pop(s, t), t, "err")
         ELSE Resume(Pop(s, t), t, "true")

\* ---- close, lines 210-233 ----
\* a close() that forgets to raise the flag before the teardown
SetShuttingDownForgotten(s) == s

\* line 211
SetShuttingDown(s) == [s EXCEPT !.isShuttingDown = TRUE]

\* lines 221-227, entered after the channel part
CloseConnectionPart(s, t) ==
  IF s.connection # 0
    THEN SetTop(s, t, Frame("close", "c_conn", s.connection))
    ELSE Resume(Pop([s EXCEPT !.isInitialized = FALSE], t), t, "ok")

close(s, t) ==
  LET s1 == Push(SetShuttingDown(s), t, Frame("close", "c_start", 0)) IN
  IF s1.channel # 0
    THEN SetTop(s1, t, Frame("close", "c_chan", s1.channel))
    ELSE CloseConnectionPart(s1, t)

\* a teardown performed by close(), remembered with the flag's value
Teardown(s) ==
  [s EXCEPT !.h.tornDown = TRUE,
            !.h.unflagged = @ \/ ~s.isShuttingDown]

\* ---- the facades and the controller ----
sendAuditLog(s, t) == sendMessage(Push(s, t, Frame("sendAuditLog", "f_audit", 0)), t)
sendUserData(s, t) == sendMessage(Push(s, t, Frame("sendUserData", "f_user", 0)), t)
updateWhitelistedUser(s, t) ==
  sendAuditLog(Push(s, t, Frame("updateWhitelistedUser", "u_audit", 0)), t)

Invoke(s, t, op) ==
  CASE op = "initialize" -> initialize(s, t)
    [] op = "sendMessage" -> sendMessage(s, t)
    [] op = "sendUserData" -> sendUserData(s, t)
    [] op = "updateWhitelistedUser" -> updateWhitelistedUser(s, t)
    [] op = "close" -> close(s, t)

\* ---- initial state: the fields as the class declares them ----
Init ==
  st = [connection |-> 0,
        channel |-> 0,
        isInitialized |-> FALSE,
        reconnectAttempts |-> 0,
        isShuttingDown |-> FALSE,
        conns |-> [c \in ConnIds |-> [state |-> "none", ch |-> "none", regs |-> 0]],
        tasks |-> [t \in TaskIds |-> IdleTask],
        h |-> [calls |-> 0, faults |-> 0, timers |-> 0, acked |-> {},
               nacked |-> {}, received |-> <<>>, noChannel |-> {}, unhandled |-> FALSE, closeCalled |-> FALSE, tornDown |-> FALSE,
               unflagged |-> FALSE, closeDone |-> FALSE]]

\* the reconnect attempts are used up and have all failed: the producer is
\* not connected, no delay is pending and no connection attempt is running
Exhausted(s) ==
  /\ s.reconnectAttempts = maxReconnectAttempts
  /\ ~(s.isInitialized /\ s.connection # 0 /\ s.channel # 0)
  /\ \A t \in TaskIds : s.tasks[t].stack = <<>>

\* ---- actions ----
\* the host calls an operation of the producer, a facade or the controller;
\* the t-th call of the behaviour is task t
Call(t, op) ==
  /\ t = h.calls + 1
  /\ LET s0 == [State EXCEPT
                  !.h.calls = @ + 1,
                  !.h.closeCalled = @ \/ op = "close",
                  !.tasks[t] = [IdleTask EXCEPT !.op = op,
                                  !.afterClose = h.closeDone,
                                  !.whenExhausted = Exhausted(State),
                                  !.settledBefore =
                                     {u \in Callers : tasks[u].result # "none"}]]
     IN Becomes(Invoke(s0, t, op))

\* the shutdown path of the host calls close(), at any time and possibly
\* again after an earlier close()
Shutdown(t) ==
  /\ tasks[t].op = "none"
  /\ \A u \in Closers : u < t => tasks[u].op # "none"
  /\ LET s0 == [State EXCEPT
                  !.h.closeCalled = TRUE,
                  !.tasks[t] = [IdleTask EXCEPT !.op = "close",
                                  !.afterClose = h.closeDone]]
     IN Becomes(close(s0, t))

\* amqp.connect resolves; lines 46-51 run up to createConfirmChannel
ConnectOk(t) ==
  /\ TopPc(t) = "i_connect"
  /\ Unborn(State) # {}
  /\ LET c == FreshConn(State)
         s1 == [State EXCEPT !.conns[c].state = "open", !.connection = c]
     IN Becomes(SetTop(s1, t, Frame("initialize", "i_channel", c)))

\* amqp.connect rejects
ConnectFail(t) ==
  /\ TopPc(t) = "i_connect"
  /\ Becomes(InitializeCatch(State, t))

\* createConfirmChannel resolves; lines 51-54 run up to prefetch
ChannelOk(t) ==
  /\ TopPc(t) = "i_channel"
  /\ ConnOpen(State, TopC(t))
  /\ LET c == TopC(t)
         s1 == [State EXCEPT !.conns[c].ch = "open", !.channel = c]
     IN Becomes(SetTop(s1, t, Frame("initialize", "i_prefetch", c)))

\* createConfirmChannel rejects: the connection is gone
ChannelFail(t) ==
  /\ TopPc(t) = "i_channel"
  /\ ~ConnOpen(State, TopC(t))
  /\ Becomes(InitializeCatch(State, t))

\* prefetch resolves; lines 56-69 attach the handlers to whatever
\* this.connection and this.channel hold now (a null one throws a TypeError)
PrefetchOk(t) ==
  /\ TopPc(t) = "i_prefetch"
  /\ ChanOpen(State, TopC(t))
  /\ IF connection = 0 THEN Becomes(InitializeCatch(State, t))
     ELSE LET s1 == [State EXCEPT !.conns[connection].regs = @ + 1] IN
          IF channel = 0 THEN Becomes(InitializeCatch(s1, t))
          ELSE Becomes(Resume(Pop([s1 EXCEPT !.isInitialized = TRUE,
                                              !.reconnectAttempts = 0], t),
                              t, "ok"))

\* prefetch rejects: the channel is gone
PrefetchFail(t) ==
  /\ TopPc(t) = "i_prefetch"
  /\ ~ChanOpen(State, TopC(t))
  /\ Becomes(InitializeCatch(State, t))

\* the reconnect delay elapses; lines 189-190 call initialize
TimerFires(t) ==
  /\ TopPc(t) = "r_delay"
  /\ Becomes(initialize(SetTop(State, t, Frame("attemptReconnect", "r_init", 0)), t))

\* assertQueue resolves; lines 98-117 publish
AssertOk(t) ==
  /\ TopPc(t) = "s_assert"
  /\ ChanOpen(State, TopC(t))
  /\ Becomes(Publish(State, t))

\* assertQueue rejects: the channel is gone
AssertFail(t) ==
  /\ TopPc(t) = "s_assert"
  /\ ~ChanOpen(State, TopC(t))
  /\ Becomes(Resume(Pop(State, t), t, "err"))

\* the broker acknowledges the publish
Ack(t) ==
  /\ TopPc(t) = "s_confirm"
  /\ ChanOpen(State, TopC(t))
  /\ Becomes(ConfirmCallback(Received([State EXCEPT !.h.acked = @ \cup {t}], t),
                             t, FALSE))

\* the broker negatively acknowledges the publish
Nack(t) ==
  /\ TopPc(t) = "s_confirm"
  /\ ChanOpen(State, TopC(t))
  /\ Becomes(ConfirmCallback(Received([State EXCEPT !.h.nacked = @ \cup {t}], t),
                             t, TRUE))

\* the channel closed with the publish unconfirmed: the library calls the
\* callback with an error
ConfirmLost(t) ==
  /\ TopPc(t) = "s_confirm"
  /\ ~ChanOpen(State, TopC(t))
  /\ Becomes(ConfirmCallback(State, t, TRUE))

\* channel.close() of close() settles; lines 217-224
CloseChannelDone(t) ==
  /\ TopPc(t) = "c_chan"
  /\ IF ChanOpen(State, TopC(t))
       THEN LET s1 == [Teardown(State) EXCEPT !.conns[TopC(t)].ch = "closed",
                                              !.channel = 0]
            IN Becomes(CloseConnectionPart(s1, t))
       ELSE Becomes(Resume(Pop(State, t), t, "err"))

\* connection.close() of close() settles; lines 222-227.  The connection
\* emits 'close' to every handler registered on it.
CloseConnectionDone(t) ==
  /\ TopPc(t) = "c_conn"
  /\ IF ConnOpen(State, TopC(t))
       THEN LET c == TopC(t)
                s1 == EmitClose(Dropped(Teardown(State), c), conns[c].regs)
            IN Becomes(Resume(Pop([s1 EXCEPT !.connection = 0,
                                             !.isInitialized = FALSE], t),
                              t, "ok"))
       ELSE Becomes(Resume(Pop(State, t), t, "err"))

Fault(s) == [s EXCEPT !.h.faults = @ + 1]

\* reconnects a 'close' event on connection c would start now
Spawns(c) ==
  IF isShuttingDown THEN 0
  ELSE IF conns[c].regs <= maxReconnectAttempts - reconnectAttempts
         THEN conns[c].regs
         ELSE maxReconnectAttempts - reconnectAttempts

\* the broker or the network closes connection c: 'close' is emitted
ConnectionClosed(c) ==
  /\ ConnOpen(State, c)
  /\ h.faults < MaxFaults
  /\ Cardinality(FreeBackground(State)) >= Spawns(c)
  /\ Becomes(EmitClose(Dropped(Fault(State), c), conns[c].regs))

\* connection c fails: 'error' is emitted, then 'close'
ConnectionError(c) ==
  /\ ConnOpen(State, c)
  /\ h.faults < MaxFaults
  /\ Cardinality(FreeBackground(State)) >= Spawns(c)
  /\ Becomes(EmitClose(EmitError(Dropped(Fault(State), c), conns[c].regs),
                       conns[c].regs))

\* the broker closes the channel of connection c (channel 'close': log only)
ChannelClosed(c) ==
  /\ ConnOpen(State, c)
  /\ ChanOpen(State, c)
  /\ h.faults < MaxFaults
  /\ Becomes([Fault(State) EXCEPT !.conns[c].ch = "closed"])

\* the broker blocks connection c (resource alarm): 'blocked' is emitted to
\* the handlers registered on it, which all do the same
ConnectionBlocked(c) ==
  /\ conns[c].state = "open"
  /\ LET s1 == [State EXCEPT !.conns[c].state = "blocked"] IN
     Becomes(IF conns[c].regs > 0 THEN handleConnectionBlocked(s1) ELSE s1)

\* the broker unblocks connection c: 'unblocked' is emitted
ConnectionUnblocked(c) ==
  /\ conns[c].state = "blocked"
  /\ LET s1 == [State EXCEPT !.conns[c].state = "open"] IN
     Becomes(IF conns[c].regs > 0 THEN handleConnectionUnblocked(s1) ELSE s1)

\* what the broker and the timers do, whoever the callers are
Broker ==
  \/ \E t \in TaskIds : ConnectOk(t)
  \/ \E t \in TaskIds : ConnectFail(t)
  \/ \E t \in TaskIds : ChannelOk(t)
  \/ \E t \in TaskIds : ChannelFail(t)
  \/ \E t \in TaskIds : PrefetchOk(t)
  \/ \E t \in TaskIds : PrefetchFail(t)
  \/ \E t \in TaskIds : TimerFires(t)
  \/ \E t \in TaskIds : AssertOk(t)
  \/ \E t \in TaskIds : AssertFail(t)
  \/ \E t \in TaskIds : Ack(t)
  \/ \E t \in TaskIds : Nack(t)
  \/ \E t \in TaskIds : ConfirmLost(t)
  \/ \E c \in ConnIds : ConnectionClosed(c)
  \/ \E c \in ConnIds : ConnectionError(c)
  \/ \E c \in ConnIds : ChannelClosed(c)

\* the steps of a close() in progress
Closing ==
  \/ \E t \in TaskIds : CloseChannelDone(t)
  \/ \E t \in TaskIds : CloseConnectionDone(t)

\* the producer driven directly
Next ==
  \/ \E t \in Callers, op \in ProducerOps : Call(t, op)
  \/ Broker
  \/ Closing

Spec == Init /\ [][Next]_vars

\* the producer driven directly, with a broker that blocks connections
BlockingNext ==
  \/ Next
  \/ \E c \in ConnIds : ConnectionBlocked(c)
  \/ \E c \in ConnIds : ConnectionUnblocked(c)

BlockingSpec == Init /\ [][BlockingNext]_vars

\* the producer driven directly, with the shutdown path calling close()
ShutdownNext ==
  \/ Next
  \/ \E t \in Closers : Shutdown(t)

ShutdownSpec == Init /\ [][ShutdownNext]_vars

\* the producer driven through the facades and the controller
FacadeNext ==
  \/ \E t \in Callers, op \in FacadeOps : Call(t, op)
  \/ Broker
  \/ Closing

FacadeSpec == Init /\ [][FacadeNext]_vars

\* The business logic alone, with what the runtime guarantees: every request
\* to the broker (connect, channel open, prefetch, queue declaration) is
\* answered one way or the other, a reconnect delay elapses, and the library
\* fails the unconfirmed publishes of a channel that closed.  Nothing makes
\* the broker acknowledge a publish: Ack and Nack carry no fairness.
Answered(t) ==
  \/ ConnectOk(t) \/ ConnectFail(t)
  \/ ChannelOk(t) \/ ChannelFail(t)
  \/ PrefetchOk(t) \/ PrefetchFail(t)
  \/ TimerFires(t)
  \/ AssertOk(t) \/ AssertFail(t)
  \/ ConfirmLost(t)

BusinessOps == {"updateWhitelistedUser", "sendUserData"}

LiveNext ==
  \/ \E t \in Callers, op \in BusinessOps : Call(t, op)
  \/ Broker

LiveSpec ==
  /\ Init
  /\ [][LiveNext]_vars
  /\ \A t \in TaskIds : WF_vars(Answered(t))

\* A broker that is unreachable for the first connection attempts, fewer
\* than maxReconnectAttempts of them, and reachable and healthy afterwards.
\* Every failed attempt schedules one reconnect, so h.timers counts them.
FailedAttempts == h.timers

Unreachable(t) ==
  /\ FailedAttempts < maxReconnectAttempts - 1
  /\ ConnectFail(t)

RecoveryOps == {"initialize", "sendMessage"}

RecoveryAnswered(t) ==
  \/ ConnectOk(t) \/ Unreachable(t)
  \/ ChannelOk(t)
  \/ PrefetchOk(t)
  \/ TimerFires(t)
  \/ AssertOk(t)

RecoveryNext ==
  \/ \E t \in Callers, op \in RecoveryOps : Call(t, op)
  \/ \E t \in TaskIds : ConnectOk(t)
  \/ \E t \in TaskIds : Unreachable(t)
  \/ \E t \in TaskIds : ChannelOk(t)
  \/ \E t \in TaskIds : PrefetchOk(t)
  \/ \E t \in TaskIds : TimerFires(t)
  \/ \E t \in TaskIds : AssertOk(t)
  \/ \E t \in TaskIds : Ack(t)
  \/ \E t \in TaskIds : Nack(t)

RecoverySpec ==
  /\ Init
  /\ [][RecoveryNext]_vars
  /\ \A t \in TaskIds : WF_vars(RecoveryAnswered(t))

\* A broker that accepts every connection and drops connections: what the
\* producer does about a connection 'close' event, with the runtime's
\* guarantees (requests are answered, delays elapse, the unconfirmed
\* publishes of a closed channel are failed).
ConnectionLost(c) ==
  /\ Unborn(State) # {}
  /\ ConnectionClosed(c)

ReconnectAnswered(t) ==
  \/ ConnectOk(t)
  \/ ChannelOk(t) \/ ChannelFail(t)
  \/ PrefetchOk(t) \/ PrefetchFail(t)
  \/ TimerFires(t)
  \/ AssertOk(t) \/ AssertFail(t)
  \/ ConfirmLost(t)

ReconnectNext ==
  \/ \E t \in Callers, op \in RecoveryOps : Call(t, op)
  \/ \E t \in TaskIds : ConnectOk(t)
  \/ \E t \in TaskIds : ChannelOk(t)
  \/ \E t \in TaskIds : ChannelFail(t)
  \/ \E t \in TaskIds : PrefetchOk(t)
  \/ \E t \in TaskIds : PrefetchFail(t)
  \/ \E t \in TaskIds : TimerFires(t)
  \/ \E t \in TaskIds : AssertOk(t)
  \/ \E t \in TaskIds : AssertFail(t)
  \/ \E t \in TaskIds : Ack(t)
  \/ \E t \in TaskIds : Nack(t)
  \/ \E t \in TaskIds : ConfirmLost(t)
  \/ \E c \in ConnIds : ConnectionLost(c)

ReconnectSpec ==
  /\ Init
  /\ [][ReconnectNext]_vars
  /\ \A t \in TaskIds : WF_vars(ReconnectAnswered(t))

isConnected == isInitialized /\ connection # 0 /\ channel # 0

TypeOK ==
  /\ connection \in 0..MaxConns
  /\ channel \in 0..MaxConns
  /\ isInitialized \in BOOLEAN
  /\ isShuttingDown \in BOOLEAN
  /\ reconnectAttempts \in Nat


\* ======================================================================
\* generateMessageId, lines 132-135, and the options of sendMessage, 98-104
\* ======================================================================
\* sequences over S of length at most n
RECURSIVE SeqsUpTo(_, _)
SeqsUpTo(S, n) ==
  IF n = 0 THEN {<<>>}
  ELSE LET R == SeqsUpTo(S, n - 1) IN
       R \cup {Append(q, d) : q \in R, d \in S}

\* what Math.random() can return, as the digits of its base-36 fraction
Randoms == SeqsUpTo(0..MaxDigit, MaxRandomDigits)

\* Number.prototype.toString(36) of a number in [0, 1): "0" for zero, else
\* "0." followed by the fraction digits
ToString36(r) == IF r = <<>> THEN <<"0">> ELSE <<"0", ".">> \o r

SuffixStart == 2
SuffixEnd == 11

\* String.prototype.substring(from, to): characters from (0-based) up to,
\* not including, to
Substring(str, from, to) ==
  SubSeq(str, from + 1, IF to <= Len(str) THEN to ELSE Len(str))

\* `msg_${Date.now()}_${Math.random().toString(36).substring(2, 11)}`: the
\* text is determined by, and determines, the time and the suffix
generateMessageId(now, r) ==
  <<"msg", now, Substring(ToString36(r), SuffixStart, SuffixEnd)>>

\* the state of this part: the clock and the options of the publishes made
IdInit == st = [now |-> 0, published |-> <<>>]

\* a millisecond passes
Tick ==
  /\ st.now < MaxClock
  /\ st' = [st EXCEPT !.now = @ + 1]

\* sendMessage builds the publish options, lines 98-104
BuildOptions(r) ==
  /\ Len(st.published) < MaxCalls
  /\ st' = [st EXCEPT !.published =
               Append(@, [timestamp |-> st.now,
                          messageId |-> generateMessageId(st.now, r)])]

IdNext == Tick \/ \E r \in Randoms : BuildOptions(r)

IdSpec == IdInit /\ [][IdNext]_vars

\* ======================================================================
\* AuditLogService.createMessage, src/services/auditLogService.ts 72-90,
\* and the JSON text that sendMessage publishes (producer.ts line 110)
\* ======================================================================
\* JavaScript values: a tag and, for an object, its properties by key
Str(x) == [t |-> "string", v |-> x]
Num(x) == [t |-> "number", v |-> ToString(x)]
NaN == [t |-> "number", v |-> "NaN"]
Null == [t |-> "null", v |-> ""]
Undefined == [t |-> "undefined", v |-> ""]
DateOf(ms) == [t |-> "Date", v |-> ToString(ms)]
Obj(props) == [t |-> "object", v |-> props]
\* an optional property that is not set
Absent == [t |-> "absent", v |-> ""]
\* the property k holding x, or no property when x is absent
Prop(k, x) == IF x.t = "absent" THEN <<>> ELSE k :> x

\* Date.prototype.toISOString()
toISOString(d) == Str("T" \o d.v \o "Z")

\* JSON.stringify, as the JSON document it writes: a property whose value
\* is undefined is left out, NaN is written as null, a Date is written as
\* the string of its toJSON(), which is toISOString()
RECURSIVE stringify(_)
stringify(x) ==
  CASE x.t = "string" -> [j |-> "string", v |-> x.v]
    [] x.t = "number" -> IF x.v = "NaN" THEN [j |-> "null", v |-> ""]
                                        ELSE [j |-> "number", v |-> x.v]
    [] x.t = "null" -> [j |-> "null", v |-> ""]
    [] x.t = "Date" -> [j |-> "string", v |-> toISOString(x).v]
    [] x.t = "object" ->
         [j |-> "object",
          v |-> [k \in {q \in DOMAIN x.v : x.v[q].t # "undefined"} |->
                   stringify(x.v[k])]]

\* JSON.parse of such a document
RECURSIVE parse(_)
parse(d) ==
  CASE d.j = "string" -> Str(d.v)
    [] d.j = "number" -> [t |-> "number", v |-> d.v]
    [] d.j = "null" -> Null
    [] d.j = "object" -> Obj([k \in DOMAIN d.v |-> parse(d.v[k])])

\* deep equality of two JavaScript values, own properties included
RECURSIVE DeepEqual(_, _)
DeepEqual(x, y) ==
  /\ x.t = y.t
  /\ IF x.t = "object"
       THEN /\ DOMAIN x.v = DOMAIN y.v
            /\ \A k \in DOMAIN x.v : DeepEqual(x.v[k], y.v[k])
       ELSE x.v = y.v

\* a value JSON can represent: no undefined, NaN or Date anywhere in it
RECURSIVE IsJson(_)
IsJson(x) ==
  CASE x.t = "object" -> \A k \in DOMAIN x.v : IsJson(x.v[k])
    [] x.t = "number" -> x.v # "NaN"
    [] x.t \in {"undefined", "Date"} -> FALSE
    [] OTHER -> TRUE

\* a builder that keeps the Date object as the timestamp
createMessageKeepsDate(tenantId, eventType, payload, now) ==
  Obj([metadata |-> Obj([tenantId |-> Str(tenantId),
                         timestamp |-> DateOf(now),
                         version |-> Str("v1.0"),
                         source |-> Str("auth-service"),
                         sourceVersion |-> Str("1.0.0"),
                         eventType |-> Str(eventType),
                         correlationId |-> Str(""),
                         causationId |-> Str("")]),
       payload |-> payload,
       headers |-> Obj(("content-type" :> Str("application/json"))
                       @@ ("schema-version" :> Str("1.0")))])

\* createMessage, lines 72-90; `now` is what `new Date()` reads
createMessage(tenantId, eventType, payload, now) ==
  Obj([metadata |-> Obj([tenantId |-> Str(tenantId),
                         timestamp |-> toISOString(DateOf(now)),
                         version |-> Str("v1.0"),
                         source |-> Str("auth-service"),
                         sourceVersion |-> Str("1.0.0"),
                         eventType |-> Str(eventType),
                         correlationId |-> Str(""),
                         causationId |-> Str("")]),
       payload |-> payload,
       headers |-> Obj(("content-type" :> Str("application/json"))
                       @@ ("schema-version" :> Str("1.0")))])

\* ---- the inputs ----
\* tenantId and eventType are strings; the empty string is one of them
Names == {"", "tenantA"}
\* what a property typed `any` may hold (AuditLogPayload.metadata,
\* changes.oldValue, changes.newValue)
AnyScalar == {Str("x"), Num(1), NaN, Null, Undefined, DateOf(0)}
AnyValue ==
  AnyScalar \cup {Obj([targetEmail |-> x]) : x \in {Str("x"), Undefined}}
\* an optional string property: not set, set to undefined, or a string
OptionalString == {Absent, Undefined, Str("unknown")}
OptionalChanges ==
  {Absent} \cup {Obj([oldValue |-> x, newValue |-> Str("x")]) :
                   x \in {Str("x"), Undefined}}
\* AuditLogPayload, lines 15-27
Payloads ==
  {Obj([userId |-> Str("u1"), action |-> Str(a), status |-> Str("SUCCESS"),
        description |-> Str("d")]
       @@ Prop("username", n) @@ Prop("changes", c) @@ Prop("metadata", m)) :
     a \in {"CREATE", "UPDATE", "DELETE"}, n \in OptionalString,
     c \in OptionalChanges, m \in AnyValue \cup {Absent}}

NoEnvelope == [t |-> "none", v |-> ""]

\* a call of createMessage about to be made, with its arguments
EnvelopeInit ==
  \E tenantId \in Names, eventType \in Names, payload \in Payloads,
     now \in 0..MaxClock :
    st = [tenantId |-> tenantId, eventType |-> eventType,
          payload |-> payload, now |-> now,
          envelope |-> NoEnvelope, wire |-> NoEnvelope]

\* the controller builds the envelope
CreateMessage ==
  /\ st.envelope.t = "none"
  /\ st' = [st EXCEPT !.envelope =
               createMessage(st.tenantId, st.eventType, st.payload, st.now)]

\* the producer serializes it for the broker and a consumer reads it back
RoundTrip ==
  /\ st.envelope.t = "object"
  /\ st.wire.t = "none"
  /\ st' = [st EXCEPT !.wire = parse(stringify(st.envelope))]

EnvelopeNext == CreateMessage \/ RoundTrip

EnvelopeSpec == EnvelopeInit /\ [][EnvelopeNext]_vars

\* ======================================================================
\* Properties
\* ======================================================================
InFlightConnects == {t \in TaskIds : TopPc(t) = "i_connect"}
PendingTimers == {t \in TaskIds : TopPc(t) = "r_delay"}
LiveChannels == {c \in ConnIds : conns[c].ch = "open"}
NeverReachable == \A c \in ConnIds : conns[c].state = "none"
InClose(t) == TopPc(t) \in {"c_chan", "c_conn"}

\* C1: a sendMessage call resolves true only if the broker acknowledged
\* that very publish; a publish the broker negatively acknowledged makes
\* the call reject, never resolve true.
C1_TrueOnlyIfAcked ==
  \A t \in Callers :
    tasks[t].op = "sendMessage" =>
      /\ tasks[t].result = "true" => t \in h.acked
      /\ t \in h.nacked => tasks[t].result = "err"

C1_Witness ==
  /\ \E t \in Callers : /\ tasks[t].op = "sendMessage"
                        /\ tasks[t].result = "true"
                        /\ t \in h.acked
  /\ \E t \in Callers : /\ tasks[t].op = "sendMessage"
                        /\ tasks[t].result = "err"
                        /\ t \in h.nacked

\* C2: however many initialize() calls overlap while the producer is not
\* connected, at most one amqp.connect attempt is in flight.
C2_SingleConnectInFlight == Cardinality(InFlightConnects) <= 1

\* C3: a sendMessage call started after close() has completed rejects, and
\* makes no connection attempt and starts no reconnect timer.
C3_SendAfterCloseFailsFast ==
  \A t \in Callers :
    (tasks[t].op = "sendMessage" /\ tasks[t].afterClose) =>
      /\ t \notin InFlightConnects
      /\ t \notin PendingTimers
      /\ tasks[t].result # "true"

\* C4: while the broker stays unreachable at most maxReconnectAttempts
\* reconnect delay timers are ever scheduled; once reconnectAttempts has
\* reached the maximum and the last timer has fired, no timer is scheduled
\* and no connection attempt starts unless a caller invokes the producer.
C4_ReconnectBounded ==
  /\ [](NeverReachable => h.timers <= maxReconnectAttempts)
  /\ [][(/\ NeverReachable
         /\ reconnectAttempts = maxReconnectAttempts
         /\ PendingTimers = {}
         /\ h.calls' = h.calls)
        => (/\ h.timers' = h.timers
            /\ InFlightConnects' \subseteq InFlightConnects)]_vars

C4_Witness ==
  /\ NeverReachable
  /\ h.timers = maxReconnectAttempts
  /\ reconnectAttempts = maxReconnectAttempts
  /\ \E t \in Callers : tasks[t].op = "initialize" /\ tasks[t].result = "err"

\* C5: at most one channel created by the producer is live at any time.
C5_AtMostOneLiveChannel == Cardinality(LiveChannels) <= 1

\* C6: the facades never reject: when producer.sendMessage rejects they
\* resolve false, and they resolve true only when producer.sendMessage
\* resolved true (which takes the broker's acknowledgment).
C6_FacadeNeverRejects ==
  \A t \in Callers :
    tasks[t].op \in {"updateWhitelistedUser", "sendUserData"} =>
      /\ tasks[t].facade \in {"none", "true", "false"}
      /\ tasks[t].inner = "err" => tasks[t].facade = "false"
      /\ tasks[t].facade = "true" =>
           tasks[t].inner = "true" /\ t \in h.acked
      /\ tasks[t].op = "sendUserData" => tasks[t].result = tasks[t].facade

C6_Witness ==
  /\ \E t \in Callers : /\ tasks[t].op = "updateWhitelistedUser"
                        /\ tasks[t].inner = "err"
                        /\ tasks[t].facade = "false"
  /\ \E t \in Callers : /\ tasks[t].op = "sendUserData"
                        /\ tasks[t].inner = "true"
                        /\ tasks[t].result = "true"

\* C9: once close() has been called no connection is opened again: a
\* reconnect timer that was pending when close() was called does not call
\* amqp.connect when it fires, and after close() has completed the
\* producer never becomes connected.
C9_NoConnectAfterClose ==
  /\ [][\A t \in TaskIds :
          (isShuttingDown /\ t \in PendingTimers) => t \notin InFlightConnects']_vars
  /\ [][h.closeDone => ~isConnected']_vars

\* C10: isShuttingDown is one-way: false until the first close() call,
\* raised by close() before it closes any channel or connection, and never
\* lowered again.
C10_ShutdownOneWay ==
  /\ [](/\ isShuttingDown => h.closeCalled
        /\ ~h.unflagged
        /\ \A t \in TaskIds : InClose(t) => isShuttingDown)
  /\ [][isShuttingDown => isShuttingDown']_vars

C10_Witness == isShuttingDown /\ h.tornDown /\ h.closeDone


\* the one place where a call waits on the broker's good will: its publish
\* is on an open channel and neither confirmed nor refused yet
AwaitsConfirm(t) == TopPc(t) = "s_confirm" /\ conns[TopC(t)].ch = "open"

\* C7 as stated: every facade call eventually settles with a boolean,
\* whatever the broker does, a broker that never confirms included.
C7_AlwaysSettles ==
  \A t \in Callers :
    (tasks[t].op \in BusinessOps) ~> (tasks[t].facade \in {"true", "false"})

\* C7 amended: every facade call eventually settles with a boolean or is
\* waiting for the confirm of its publish on an open channel, the only
\* wait that nothing bounds.
C7_SettlesOrAwaitsConfirm ==
  \A t \in Callers :
    (tasks[t].op \in BusinessOps) ~>
      (tasks[t].facade \in {"true", "false"} \/ AwaitsConfirm(t))

C7_Witness ==
  /\ \E t \in Callers : tasks[t].op = "sendUserData" /\ AwaitsConfirm(t)
  /\ \E t \in Callers : tasks[t].op \in BusinessOps /\ tasks[t].facade = "false"

\* C8 as stated: once the document update has succeeded the controller
\* eventually sends its success response, whatever happens to the audit
\* publish (failed, rejected or never acknowledged).
C8_AlwaysResponds ==
  \A t \in Callers :
    (tasks[t].op = "updateWhitelistedUser") ~> (tasks[t].result = "200")

\* C8 amended: the response is never an error because of the audit
\* publish, and it is eventually sent unless the audit publish is waiting
\* for a confirm on an open channel.
C8_RespondsOrAwaitsConfirm ==
  /\ [](\A t \in Callers :
          tasks[t].op = "updateWhitelistedUser" => tasks[t].result \in {"none", "200"})
  /\ \A t \in Callers :
       (tasks[t].op = "updateWhitelistedUser") ~>
         (tasks[t].result = "200" \/ AwaitsConfirm(t))

C8_Witness ==
  /\ \E t \in Callers : /\ tasks[t].op = "updateWhitelistedUser"
                        /\ tasks[t].facade = "false"
                        /\ tasks[t].result = "200"
  /\ \E t \in Callers : /\ tasks[t].op = "updateWhitelistedUser"
                        /\ AwaitsConfirm(t)

\* a close() call made after an earlier close() call completed
Reclose(t) == tasks[t].op = "close" /\ tasks[t].afterClose

\* C11: close() is idempotent: a close() call made after an earlier close()
\* completed resolves without error, asks the library to close no channel
\* and no connection, and leaves connection = null, channel = null,
\* isInitialized = false and isShuttingDown = true.
C11_CloseIdempotent ==
  /\ [](\A t \in TaskIds :
          Reclose(t) => (~InClose(t) /\ tasks[t].result = "ok"))
  /\ [][\A t \in TaskIds :
          (~Reclose(t) /\ Reclose(t)') =>
             (/\ connection' = 0
              /\ channel' = 0
              /\ ~isInitialized'
              /\ isShuttingDown')]_vars

\* C12: close() tears the channel and the connection down independently:
\* when channel.close() fails (the broker had closed the channel already)
\* close() does not reject; it goes on to close the connection, or, with no
\* connection to close, resolves with both references cleared and the
\* producer marked not initialized.
C12_CloseBestEffort ==
  [][\A t \in TaskIds :
       (/\ TopPc(t) = "c_chan"
        /\ ~ChanOpen(State, TopC(t))
        /\ TopPc(t)' # "c_chan") =>
          (/\ tasks'[t].result # "err"
           /\ \/ TopPc(t)' = "c_conn"
              \/ (/\ tasks'[t].result = "ok"
                  /\ connection' = 0
                  /\ channel' = 0
                  /\ ~isInitialized'))]_vars

\* C13: whenever isConnected() returns true the connection and the channel
\* the producer holds are both live; after a channel 'close' or 'error'
\* event or a connection 'close' event isConnected() returns false.
C13_ConnectedMeansLive ==
  isConnected => (ConnOpen(State, connection) /\ ChanOpen(State, channel))

\* C14: with a broker unreachable for the first k < maxReconnectAttempts
\* connection attempts and reachable afterwards, an initialize() call leads
\* to a producer that ends connected (isConnected() = true from then on),
\* and a sendMessage the broker acknowledges returns true.
C14_RecoversAndSends ==
  /\ \A t \in Callers :
       (tasks[t].op = "initialize") ~> [](isConnected)
  /\ [](\A t \in Callers :
          (tasks[t].op = "sendMessage" /\ t \in h.acked) =>
             tasks[t].result = "true")

C14_Witness ==
  /\ FailedAttempts >= 1
  /\ isConnected
  /\ tasks[1].op = "initialize" /\ tasks[1].result = "err"
  /\ \E t \in Callers : /\ tasks[t].op = "sendMessage"
                        /\ ~tasks[t].afterClose
                        /\ t \in h.acked
                        /\ tasks[t].result = "true"

\* the connection attempt of the initialize() that task t awaits fails
FailsOwnAttempt(t) == ConnectFail(t) \/ ChannelFail(t) \/ PrefetchFail(t)

\* a host call of initialize() whose own attempt has failed
OwnAttemptFailed(t) ==
  /\ tasks[t].op = "initialize"
  /\ tasks[t].stack # <<>>
  /\ tasks[t].stack[1].pc = "i_catch"

\* an initialize() whose own attempt failed rejects when it settles
RejectsAfterFailure ==
  \A t \in Callers :
    /\ (tasks[t].op = "initialize" /\ Len(tasks[t].stack) = 1 /\ FailsOwnAttempt(t))
          => (tasks'[t].result = "err" \/ OwnAttemptFailed(t)')
    /\ OwnAttemptFailed(t)
          => (tasks'[t].result = "err" \/ OwnAttemptFailed(t)')

\* C15 as stated: every initialize() whose own connection attempt fails
\* rejects to its caller, and unless the producer is shutting down a
\* reconnect is scheduled before it rejects.
C15_FailedInitializeReschedules ==
  /\ [][RejectsAfterFailure]_vars
  /\ [][\A t \in TaskIds :
          FailsOwnAttempt(t) =>
            (isShuttingDown \/ h.timers' = h.timers + 1)]_vars

\* C15 amended: every initialize() whose own connection attempt fails
\* rejects to its caller; a reconnect is scheduled (and awaited) before it
\* rejects unless the producer is shutting down or reconnectAttempts has
\* reached maxReconnectAttempts, in which cases it rejects at once with no
\* reconnect scheduled.
C15_ReschedulesUnlessExhausted ==
  /\ [][RejectsAfterFailure]_vars
  /\ [][\A t \in TaskIds :
          FailsOwnAttempt(t) =>
            IF isShuttingDown \/ reconnectAttempts >= maxReconnectAttempts
              THEN h.timers' = h.timers /\ TopPc(t)' # "r_delay"
              ELSE h.timers' = h.timers + 1 /\ TopPc(t)' = "r_delay"]_vars

C15_Witness ==
  /\ \E t \in Callers : tasks[t].op = "initialize" /\ tasks[t].result = "err"
  /\ reconnectAttempts = maxReconnectAttempts
  /\ PendingTimers = {}
  /\ ~isShuttingDown
  /\ \E c \in ConnIds : conns[c].state = "closed"

\* C16: once the reconnect attempts are exhausted the producer stays
\* disconnected until the host calls initialize(): a sendMessage made in
\* that state does not resolve true, waits for no reconnect delay and gets
\* no further than a connection attempt that fails.
C16_ExhaustedSendFailsFast ==
  \A t \in Callers :
    (tasks[t].op = "sendMessage" /\ tasks[t].whenExhausted) =>
      /\ tasks[t].result # "true"
      /\ TopPc(t) \in {"idle", "i_connect"}

\* position of the message of call t in the order the broker received them
\* (0: not received)
ReceivedAt(t) ==
  IF \E i \in 1..Len(h.received) : h.received[i] = t
    THEN CHOOSE i \in 1..Len(h.received) : h.received[i] = t
    ELSE 0

\* call u was started after call t had settled
Sequential(t, u) == t \in tasks[u].settledBefore

\* C17: when two sendMessage calls are issued one after the other (the
\* second started after the first settled) and both resolve true, the
\* broker received the first message before the second.
C17_SequentialOrder ==
  \A t, u \in Callers :
    (/\ tasks[t].op = "sendMessage" /\ tasks[t].result = "true"
     /\ tasks[u].op = "sendMessage" /\ tasks[u].result = "true"
     /\ Sequential(t, u)) =>
       (ReceivedAt(t) > 0 /\ ReceivedAt(t) < ReceivedAt(u))

C17_Witness ==
  /\ tasks[1].op = "sendMessage" /\ tasks[1].result = "true"
  /\ tasks[2].op = "sendMessage" /\ tasks[2].result = "true"
  /\ Sequential(1, 2)
  /\ h.received = <<1, 2>>

\* C18: any two sendMessage calls publish with distinct messageId values,
\* whatever the clock and the random suffix generator return.
C18_DistinctMessageIds ==
  \A i, j \in 1..Len(st.published) :
    i # j => st.published[i].messageId # st.published[j].messageId

\* the envelope carries its inputs
CarriesInputs ==
  st.envelope.t = "object" =>
    /\ st.envelope.v.metadata.v.tenantId = Str(st.tenantId)
    /\ st.envelope.v.metadata.v.eventType = Str(st.eventType)
    /\ DeepEqual(st.envelope.v.payload, st.payload)

\* C19 as stated: for every tenantId, eventType and payload the envelope
\* carries the inputs and is unchanged by a JSON round trip.
C19_RoundTripsAlways ==
  /\ CarriesInputs
  /\ st.wire.t = "object" => DeepEqual(st.wire, st.envelope)

\* C19 amended: the envelope carries the inputs for every payload, and it
\* is unchanged by a JSON round trip exactly when the payload holds only
\* values JSON can represent (no undefined, NaN or Date in a property).
C19_RoundTripsJsonPayloads ==
  /\ CarriesInputs
  /\ st.wire.t = "object" =>
       (DeepEqual(st.wire, st.envelope) <=> IsJson(st.payload))

C19_Witness ==
  /\ st.wire.t = "object"
  /\ IsJson(st.payload)
  /\ "metadata" \in DOMAIN st.payload.v
  /\ st.payload.v.metadata.t = "object"
  /\ "changes" \in DOMAIN st.payload.v
  /\ DeepEqual(st.wire, st.envelope)
  /\ st.wire.v.metadata.v.eventType = Str("tenantA")

\* C20: createMessage requires tenantId and eventType to be non-empty
\* strings: called with an empty tenantId or an empty eventType it returns
\* no envelope (the payload is not checked at all).
C20_RejectsEmptyNames ==
  (st.tenantId = "" \/ st.eventType = "") => st.envelope.t = "none"

\* the connection the producer holds has emitted 'close' to its handlers
HeldConnectionClosed ==
  /\ connection # 0
  /\ ~ConnOpen(State, connection)
  /\ conns[connection].regs > 0

\* connected to a connection and a channel that are open
ConnectedLive ==
  isConnected /\ ConnOpen(State, connection) /\ ChanOpen(State, channel)

\* C21: a connection 'close' event on a connected producer that is not
\* shutting down, with attempts left and a broker that accepts connections,
\* marks the producer not connected at once and schedules a reconnect; with
\* no caller intervention the producer eventually is connected again with
\* reconnectAttempts = 0.
C21_ReconnectsAfterClose ==
  /\ [][\A c \in ConnIds :
          (/\ c = connection /\ isConnected /\ ~isShuttingDown
           /\ reconnectAttempts < maxReconnectAttempts
           /\ ConnOpen(State, c) /\ ~ConnOpen(State, c)') =>
             (~isConnected' /\ h.timers' > h.timers)]_vars
  /\ HeldConnectionClosed ~> (ConnectedLive /\ reconnectAttempts = 0)

\* the channel the producer holds is closed while its connection is open
DeadChannel ==
  /\ isConnected
  /\ ConnOpen(State, connection)
  /\ ~ChanOpen(State, channel)

\* C22: when the channel closes or errors while the connection stays open
\* the producer recovers by itself: it eventually holds a live channel
\* again.
C22_ChannelRecovers == DeadChannel ~> ChanOpen(State, channel)

\* C23: at most one reconnect delay timer is pending at any time, whatever
\* the interleaving, and a failing initialize() never schedules one itself
\* (only the connection 'close' handler does).
C23_SingleReconnectTimer ==
  /\ [](Cardinality(PendingTimers) <= 1)
  /\ [][\A t \in TaskIds : FailsOwnAttempt(t) => h.timers' = h.timers]_vars

\* C24: the teardown of the connection inside close() never starts a
\* reconnect: the 'close' event it causes finds isShuttingDown = true, so no
\* delay timer is scheduled and reconnectAttempts is not incremented.
C24_TeardownStartsNoReconnect ==
  [][\A t \in TaskIds :
       (CloseConnectionDone(t) /\ ConnOpen(State, TopC(t))) =>
          (/\ isShuttingDown
           /\ h.timers' = h.timers
           /\ reconnectAttempts' = reconnectAttempts
           /\ PendingTimers' = PendingTimers)]_vars

C24_Witness ==
  /\ h.closeDone
  /\ h.faults = 0
  /\ connection = 0
  /\ \E c \in ConnIds : conns[c].state = "closed" /\ conns[c].regs > 0
  /\ PendingTimers = {}

\* C25: a sendMessage that finds no channel once ensureConnection has
\* returned (as when close() has cleared the channel and not yet closed the
\* connection) rejects with 'Channel not available'; it declares no queue
\* and publishes nothing.
C25_NoChannelRejects ==
  /\ [](\A t \in TaskIds :
          TopPc(t) \in {"s_assert", "s_confirm"} => TopC(t) # 0)
  /\ [][\A t \in TaskIds :
          (t \in h.noChannel' /\ t \notin h.noChannel) =>
             (/\ channel' = 0
              /\ tasks'[t].op = "sendMessage"
              /\ tasks'[t].result = "err"
              /\ tasks'[t].stack = <<>>
              /\ h.received' = h.received
              /\ t \notin h.acked' /\ t \notin h.nacked')]_vars

C25_Witness ==
  \E t \in Callers, u \in TaskIds :
    /\ t \in h.noChannel
    /\ tasks[t].result = "err"
    /\ TopPc(u) = "c_conn"
    /\ isInitialized /\ connection # 0 /\ channel = 0

\* C26: no event handler leaves an unhandled promise rejection: the
\* attemptReconnect promise that the connection 'close' handler starts
\* without awaiting it always resolves, whatever becomes of the
\* initialize() call of the reconnect.
C26_NoUnhandledRejection == ~h.unhandled

C26_Witness ==
  /\ h.faults > 0
  /\ h.calls = 1 /\ tasks[1].op = "initialize" /\ tasks[1].result = "ok"
  /\ ~isInitialized
  /\ reconnectAttempts = maxReconnectAttempts
  /\ \A t \in TaskIds : ~Busy(t)
  /\ \A c \in ConnIds : conns[c].state # "open"

\* C27: a connection 'blocked' or 'unblocked' event changes no producer
\* state, so isConnected() stays true while blocked, and a sendMessage
\* whose queue is declared on a blocked connection still publishes.
C27_BlockedChangesNothing ==
  /\ [][\A c \in ConnIds :
          (ConnectionBlocked(c) \/ ConnectionUnblocked(c)) =>
             (/\ isInitialized' = isInitialized
              /\ connection' = connection
              /\ channel' = channel
              /\ reconnectAttempts' = reconnectAttempts
              /\ isShuttingDown' = isShuttingDown
              /\ isConnected' = isConnected
              /\ tasks' = tasks
              /\ h' = h)]_vars
  /\ [][\A t \in TaskIds :
          (/\ AssertOk(t)
           /\ channel = TopC(t)
           /\ conns[TopC(t)].state = "blocked") =>
             (TopPc(t)' = "s_confirm" /\ TopC(t)' = channel)]_vars

C27_Witness ==
  \E t \in Callers :
    /\ tasks[t].op = "sendMessage"
    /\ tasks[t].settledBefore # {}
    /\ TopPc(t) = "s_confirm"
    /\ conns[TopC(t)].state = "blocked"
    /\ conns[TopC(t)].regs > 0
    /\ isConnected

\* C28: a connection 'error' event only marks the producer not connected:
\* its handlers set isInitialized to false and change nothing else, and
\* schedule no reconnect; in the step where the library emits 'error' and
\* then 'close', everything beyond that is what the 'close' event alone
\* would have done.
C28_ErrorOnlyMarks ==
  /\ [](\A c \in ConnIds :
          (ConnOpen(State, c) /\ conns[c].regs > 0) =>
             EmitError(State, conns[c].regs) = [State EXCEPT !.isInitialized = FALSE])
  /\ [][\A c \in ConnIds :
          ConnectionError(c) =>
             (/\ conns[c].regs > 0 => ~isInitialized'
              /\ connection' = connection
              /\ channel' = channel
              /\ isShuttingDown' = isShuttingDown
              /\ ConnectionClosed(c))]_vars

C28_Witness ==
  /\ h.faults > 0
  /\ ~isInitialized
  /\ connection # 0 /\ channel # 0
  /\ conns[connection].state = "closed" /\ conns[connection].regs > 0
  /\ reconnectAttempts = 1 /\ h.timers = 1
  /\ ~isShuttingDown

\* C29: 0 <= reconnectAttempts <= maxReconnectAttempts in every reachable
\* state, interleaved attemptReconnect invocations included; the counter
\* changes only by +1 for each delay attemptReconnect schedules and by a
\* reset to 0 when an initialize() succeeds.
C29_AttemptsInRange ==
  /\ [](reconnectAttempts \in 0..maxReconnectAttempts)
  /\ [][reconnectAttempts' # reconnectAttempts =>
          \/ reconnectAttempts' = 0 /\ isInitialized'
          \/ /\ h.timers' > h.timers
             /\ reconnectAttempts' - reconnectAttempts = h.timers' - h.timers]_vars

C29_Witness ==
  /\ reconnectAttempts = maxReconnectAttempts
  /\ Cardinality(PendingTimers) >= 2
  /\ h.faults > 0

\* connection c was opened by an initialize() that has failed since: it is
\* open, no handler was registered on it and no initialize() is using it
LeftByFailedInitialize(c) ==
  /\ ConnOpen(State, c)
  /\ conns[c].regs = 0
  /\ \A t \in TaskIds :
       ~(TopPc(t) \in {"i_channel", "i_prefetch"} /\ TopC(t) = c)

\* C30: no connection opened by a failed initialize() is left open: when a
\* later connect succeeds, the connection it replaces in this.connection
\* is not a live one left, without handlers, by a failed attempt.
C30_NoLeakedConnection ==
  [][\A t \in TaskIds :
       ConnectOk(t) => ~LeftByFailedInitialize(connection)]_vars

====
